---- MODULE Spec2Model ----
(***************************************************************************)
(* The per-frame exercise analysis of backend/vision/service.py:           *)
(* VisionService.analyze_video_file and the functions it calls on every    *)
(* frame (calculate_exercise_angles, analyze_form, count_repetitions,      *)
(* is_plank_position).                                                     *)
(*                                                                         *)
(* Numbers.  Angles are whole degrees, or NaN.  A mean of two angles is    *)
(* kept as their sum and compared with twice the threshold.  Form scores   *)
(* are tenths (1.0 is 10), timestamps and durations are milliseconds       *)
(* (frame_count / fps seconds is frame_count * 1000 / fps ms), a mean of   *)
(* scores is the exact fraction num / den of tenths.                       *)
(***************************************************************************)
EXTENDS Integers, Sequences, FiniteSets, TLC

VARIABLES
    pc,                     \* "start", "loop", "returned", "raised", "unit", "unit_done"
    exercise_type,          \* the exercise_type argument
    fps,                    \* cap.get(CAP_PROP_FPS)
    total_frames,           \* int(cap.get(CAP_PROP_FRAME_COUNT))
    frame_count,
    poses_detected,
    repetitions,
    plank_sessions,
    form_feedback,
    rep_count,
    rep_state,              \* the dict rep_state: its 'position', or "unset"
    plank_start_time,
    current_plank_feedback,
    form_scores,
    video,                  \* the frames cap.read() has returned so far
    result,                 \* the ExerciseAnalysisResult returned
    error,                  \* the exception that left analyze_video_file
    ret,                    \* the value returned by a function called on its own
    pose_fed,               \* the calls whose frames self.pose has processed
    previous_run,           \* the call made before this one on the same file
    points,                 \* the three points given to calculate_angle alone
    tmpdir,                 \* tempfile.gettempdir(): the path -> content of its files
    requests                \* the /vision/analyze-video requests being served

vars == <<pc, exercise_type, fps, total_frames, frame_count, poses_detected,
          repetitions, plank_sessions, form_feedback, rep_count, rep_state,
          plank_start_time, current_plank_feedback, form_scores, video,
          result, error, ret, pose_fed, previous_run, points, tmpdir, requests>>

---------------------------------------------------------------------------
(* Bounds of the model *)

MaxFrames == 6
MaxDeclaredFrames == 1
\* The longest video that is analysed a second time.
MaxReplayFrames == 3
\* The most repetitions whose qualities are fed to consistency_score alone.
MaxReps == 3
\* The largest x and y of a keypoint given to calculate_angle alone.
MaxCoord == 2
\* The latest second, int(time.time()), at which an upload arrives.
MaxSecond == 1

---------------------------------------------------------------------------
(* Values *)

None == -1
NaN == 999

NoResult == [none |-> TRUE]

RepExercises == {"squats", "pushups", "lunges"}
rep_threshold_down == 90
rep_threshold_up == 160
\* The keys of exercise_configs.
exercise_configs == {"squats", "pushups", "lunges", "planks"}
\* Identifiers a caller may pass: the configured ones and one that is not.
ExerciseIds == exercise_configs \cup {"yoga"}

\* cap.get(CAP_PROP_FPS): 0.0 when the backend does not know the rate.
FpsValues == {0, 25}

\* time.time() - start_time, the wall-clock time a run takes (ms).
Durations == {1, 2}

\* An empty temporary directory, and no request.
NoFiles == {}
NoRequests == <<>>

\* No call was made before this one.
NoPreviousRun ==
    [done |-> FALSE, fps |-> 0, total_frames |-> 0, video |-> <<>>, result |-> NoResult]

\* Python comparisons on floats: every comparison with NaN is False.
Lt(a, b) == a # NaN /\ b # NaN /\ a < b
Gt(a, b) == a # NaN /\ b # NaN /\ a > b
\* a + b, the numerator of the mean (a + b) / 2.
Sum2(a, b) == IF a = NaN \/ b = NaN THEN NaN ELSE a + b
\* abs(a - b)
AbsDiff(a, b) == IF a = NaN \/ b = NaN THEN NaN ELSE IF a < b THEN b - a ELSE a - b
\* angles.get(name, default)
Get(angles, name, default) == IF name \in DOMAIN angles THEN angles[name] ELSE default
Max(a, b) == IF a > b THEN a ELSE b

RECURSIVE SumSeq(_)
SumSeq(s) == IF s = <<>> THEN 0 ELSE Head(s) + SumSeq(Tail(s))

\* s[-n:]
LastN(s, n) == IF Len(s) <= n THEN s ELSE SubSeq(s, Len(s) - n + 1, Len(s))
\* np.mean(s) of tenths, as the exact fraction num / den.
Mean(s) == [num |-> SumSeq(s), den |-> Len(s)]
\* A float constant c (in tenths) as a fraction.
Const(c) == [num |-> c, den |-> 1]

RECURSIVE ToSet(_)
ToSet(s) == IF s = <<>> THEN {} ELSE {Head(s)} \cup ToSet(Tail(s))

---------------------------------------------------------------------------
(* Frames.  A frame is what cap.read() and self.pose.process() give for it: *)
(* no pose, or a pose, described by the angle calculate_angle returns at    *)
(* each joint triple the service uses and by the y of the left shoulder    *)
(* and the left hip (normalised image coordinates, in hundredths).         *)

NoPose == [pose |-> FALSE, knee_l |-> 0, knee_r |-> 0, hip_l |-> 0, elbow_l |-> 0,
           elbow_r |-> 0, trunk |-> 0, shoulder_y |-> 0, hip_y |-> 0]

Pose(kl, kr, el, er, tr, sy, hy) ==
    [pose |-> TRUE, knee_l |-> kl, knee_r |-> kr, hip_l |-> 90, elbow_l |-> el,
     elbow_r |-> er, trunk |-> tr, shoulder_y |-> sy, hip_y |-> hy]

\* The poses a video of each exercise shows in this model.
Poses(ex) ==
    CASE ex = "squats" ->
           { Pose(170, 170, 170, 170, 175, 30, 50),    \* standing
             Pose(85, 85, 170, 170, 175, 30, 50),      \* squatting
             Pose(85, 170, 170, 170, 175, 60, 50) }    \* uneven knees, chest down
      [] ex = "pushups" ->
           { Pose(170, 170, 170, 170, 175, 50, 50),    \* arms straight
             Pose(170, 170, 85, 85, 175, 50, 50),      \* arms bent
             Pose(170, 170, 85, 120, 150, 50, 50) }    \* uneven elbows, hips sagging
      [] ex = "lunges" ->
           { Pose(170, 170, 170, 170, 175, 30, 50),    \* standing
             Pose(85, 85, 170, 170, 175, 30, 50),      \* lunging
             Pose(75, 85, 170, 170, 175, 30, 50) }     \* front knee too far
      [] ex = "planks" ->
           { Pose(170, 170, 90, 90, 150, 50, 50),      \* back bent
             Pose(170, 170, 90, 90, 165, 50, 50),      \* in position
             Pose(170, 170, 90, 90, 175, 50, 40) }     \* in position, hips high
      [] OTHER ->
           { Pose(170, 170, 170, 170, 175, 30, 50) }

Frames(ex) == {NoPose} \cup Poses(ex)

\* The angles and heights a pose is drawn from when one function is applied
\* to one pose: both sides of every threshold, the thresholds, and NaN.
UnitAngles == {0, 60, 70, 75, 80, 85, 90, 100, 110, 120, 125, 150, 160, 165,
               170, 180, NaN}
UnitHeights == {40, 50, 60}

UnitPoses(ex) ==
    CASE ex \in {"squats", "lunges"} ->
           { Pose(kl, kr, 170, 170, 175, sy, 50) :
                 kl \in UnitAngles, kr \in UnitAngles, sy \in UnitHeights }
      [] ex = "pushups" ->
           { Pose(170, 170, el, er, tr, 50, 50) :
                 el \in UnitAngles, er \in UnitAngles, tr \in {150, 160, 175, NaN} }
      [] ex = "planks" ->
           { Pose(170, 170, 90, 90, tr, sy, 50) :
                 tr \in UnitAngles, sy \in UnitHeights }
      [] OTHER ->
           { Pose(170, 170, 170, 170, 175, 30, 50) }

\* The loop without the check for a pose.
pose_landmarks_unchecked(fr) == TRUE

\* results.pose_landmarks, as the condition of the if statement
pose_landmarks(fr) == fr.pose

---------------------------------------------------------------------------
(* calculate_exercise_angles: the AngleSet of a pose, a function from the  *)
(* angle names of the exercise to degrees.                                 *)

\* math.degrees(np.arccos(np.clip(dot / sqrt(nn), -1.0, 1.0))) for the
\* cosines the points of Grid give: 0, +-1/sqrt(2), +-1.
arccos_degrees(dot, nn) ==
    CASE dot = 0 -> 90
      [] dot * dot = nn -> IF dot > 0 THEN 0 ELSE 180
      [] 2 * dot * dot = nn -> IF dot > 0 THEN 45 ELSE 135

\* calculate_angle measuring the turn from ba to bc, up to 360 degrees.
calculate_angle_reflex(point1, point2, point3) ==
    LET ba == <<point1[1] - point2[1], point1[2] - point2[2]>>
        bc == <<point3[1] - point2[1], point3[2] - point2[2]>>
        dot == ba[1] * bc[1] + ba[2] * bc[2]
        cross == ba[1] * bc[2] - ba[2] * bc[1]
        nn == (ba[1] * ba[1] + ba[2] * ba[2]) * (bc[1] * bc[1] + bc[2] * bc[2])
    IN  IF nn = 0 THEN NaN
        ELSE IF cross < 0 THEN 360 - arccos_degrees(dot, nn)
        ELSE arccos_degrees(dot, nn)

\* calculate_angle: the angle at point2 between point1 and point3.  With a
\* vector of length zero np.dot(...) / (norm * norm) is 0.0 / 0.0: numpy
\* warns and gives nan, nothing is raised, so the except branch that
\* returns 0.0 is not taken and nan goes through clip, arccos and degrees.
calculate_angle(point1, point2, point3) ==
    LET ba == <<point1[1] - point2[1], point1[2] - point2[2]>>
        bc == <<point3[1] - point2[1], point3[2] - point2[2]>>
        dot == ba[1] * bc[1] + ba[2] * bc[2]
        nn == (ba[1] * ba[1] + ba[2] * ba[2]) * (bc[1] * bc[1] + bc[2] * bc[2])
    IN  IF nn = 0 THEN NaN ELSE arccos_degrees(dot, nn)

\* config["key_angles"] of each exercise.
key_angles(ex) ==
    CASE ex = "squats" -> {"left_knee", "right_knee", "left_hip", "right_hip"}
      [] ex = "pushups" -> {"left_elbow", "right_elbow", "left_shoulder", "right_shoulder"}
      [] ex = "lunges" -> {"left_knee", "right_knee", "left_hip", "right_hip"}
      [] ex = "planks" -> {"left_elbow", "right_elbow", "back_angle"}

calculate_exercise_angles(keypoints, ex) ==
    CASE ex = "squats" ->
           [n \in {"left_knee", "right_knee", "left_hip"} |->
               CASE n = "left_knee" -> keypoints.knee_l
                 [] n = "right_knee" -> keypoints.knee_r
                 [] OTHER -> keypoints.hip_l]
      [] ex = "pushups" ->
           [n \in {"left_elbow", "right_elbow", "body_angle"} |->
               CASE n = "left_elbow" -> keypoints.elbow_l
                 [] n = "right_elbow" -> keypoints.elbow_r
                 [] OTHER -> keypoints.trunk]
      [] ex = "lunges" ->
           [n \in {"front_knee", "back_knee"} |->
               IF n = "front_knee" THEN keypoints.knee_l ELSE keypoints.knee_r]
      [] ex = "planks" ->
           [n \in {"back_angle", "left_elbow"} |->
               IF n = "back_angle" THEN keypoints.trunk ELSE keypoints.elbow_l]
      [] OTHER -> [n \in {} |-> 0]

---------------------------------------------------------------------------
(* analyze_form: [score, feedback].  Each rule that fires appends its      *)
(* message and subtracts its penalty; the score is then floored at 0.      *)

\* A rule adding its penalty to the score.
Rule_added(acc, cond, m, p) ==
    IF cond THEN [score |-> acc.score + p, feedback |-> Append(acc.feedback, m)]
    ELSE acc

\* One rule: the message m and the penalty p (tenths) when cond holds.
Rule(acc, cond, m, p) ==
    IF cond THEN [score |-> acc.score - p, feedback |-> Append(acc.feedback, m)]
    ELSE acc

SquatsForm(keypoints, angles) ==
    LET start == [score |-> 10, feedback |-> <<>>]
        knee_diff == AbsDiff(angles["left_knee"], angles["right_knee"])
        a1 == IF "left_knee" \in DOMAIN angles /\ "right_knee" \in DOMAIN angles
              THEN Rule(start, Gt(knee_diff, 15), "Keep knees aligned", 2)
              ELSE start
        avg_knee_angle2 == Sum2(Get(angles, "left_knee", 180), Get(angles, "right_knee", 180))
        a2 == IF Gt(avg_knee_angle2, 2 * 120)
              THEN Rule(a1, TRUE, "Squat deeper for better range of motion", 1)
              ELSE Rule(a1, Lt(avg_knee_angle2, 2 * 70), "Don't squat too deep", 1)
    IN  Rule(a2, keypoints.shoulder_y > keypoints.hip_y,
             "Keep chest up and back straight", 2)

PushupsForm(keypoints, angles) ==
    LET start == [score |-> 10, feedback |-> <<>>]
        elbow_diff == AbsDiff(angles["left_elbow"], angles["right_elbow"])
        a1 == IF "left_elbow" \in DOMAIN angles /\ "right_elbow" \in DOMAIN angles
              THEN Rule(start, Gt(elbow_diff, 20), "Keep elbows aligned", 2)
              ELSE start
    IN  IF "body_angle" \in DOMAIN angles
        THEN IF Lt(angles["body_angle"], 160)
             THEN Rule(a1, TRUE, "Keep body straight - no sagging hips", 3)
             ELSE Rule(a1, Gt(angles["body_angle"], 190), "Lower your hips", 2)
        ELSE a1

\* The two front-knee penalties exchanged.
LungesForm_swapped(keypoints, angles) ==
    LET start == [score |-> 10, feedback |-> <<>>]
    IN  IF "front_knee" \in DOMAIN angles
        THEN IF Lt(angles["front_knee"], 80)
             THEN Rule(start, TRUE, "Don't let front knee go too far forward", 1)
             ELSE Rule(start, Gt(angles["front_knee"], 110),
                       "Lunge deeper for better activation", 2)
        ELSE start

LungesForm(keypoints, angles) ==
    LET start == [score |-> 10, feedback |-> <<>>]
    IN  IF "front_knee" \in DOMAIN angles
        THEN IF Lt(angles["front_knee"], 80)
             THEN Rule(start, TRUE, "Don't let front knee go too far forward", 2)
             ELSE Rule(start, Gt(angles["front_knee"], 110),
                       "Lunge deeper for better activation", 1)
        ELSE start

PlanksForm(keypoints, angles) ==
    LET start == [score |-> 10, feedback |-> <<>>]
        a1 == IF "back_angle" \in DOMAIN angles
              THEN IF Lt(angles["back_angle"], 160)
                   THEN Rule(start, TRUE, "Straighten your back", 3)
                   ELSE Rule(start, Gt(angles["back_angle"], 190), "Don't arch your back", 2)
              ELSE start
    IN  Rule(a1, keypoints.hip_y < keypoints.shoulder_y, "Lower your hips", 2)

analyze_form(keypoints, angles, ex) ==
    LET r == CASE ex = "squats" -> SquatsForm(keypoints, angles)
               [] ex = "pushups" -> PushupsForm(keypoints, angles)
               [] ex = "lunges" -> LungesForm(keypoints, angles)
               [] ex = "planks" -> PlanksForm(keypoints, angles)
               [] OTHER -> [score |-> 10, feedback |-> <<>>]
    IN  [score |-> Max(0, r.score), feedback |-> r.feedback]

---------------------------------------------------------------------------
(* count_repetitions: [raised, new_rep, position].  The lookup of the      *)
(* exercise in exercise_configs raises KeyError for an unknown exercise.   *)

\* Twice the primary angle of a rep exercise.
primary_angle2(ex, angles) ==
    CASE ex = "squats" ->
           Sum2(Get(angles, "left_knee", 180), Get(angles, "right_knee", 180))
      [] ex = "pushups" ->
           Sum2(Get(angles, "left_elbow", 180), Get(angles, "right_elbow", 180))
      [] OTHER ->
           Sum2(Get(angles, "front_knee", 180), Get(angles, "front_knee", 180))

\* count_repetitions counting a repetition on the bootstrap to UP as well.
count_repetitions_bootstrap_rep(ex, angles, position) ==
    IF ex \notin exercise_configs
    THEN [raised |-> TRUE, new_rep |-> FALSE, position |-> position]
    ELSE IF ex \in {"squats", "pushups", "lunges"}
    THEN LET p2 == primary_angle2(ex, angles)
         IN  IF position = "up" /\ Lt(p2, 2 * rep_threshold_down)
             THEN [raised |-> FALSE, new_rep |-> FALSE, position |-> "down"]
             ELSE IF position # "up" /\ Gt(p2, 2 * rep_threshold_up)
             THEN [raised |-> FALSE, new_rep |-> TRUE, position |-> "up"]
             ELSE IF position = "unset"
             THEN [raised |-> FALSE, new_rep |-> FALSE, position |-> "down"]
             ELSE [raised |-> FALSE, new_rep |-> FALSE, position |-> position]
    ELSE [raised |-> FALSE, new_rep |-> FALSE, position |-> position]

\* count_repetitions with <= and >= at the two thresholds.
count_repetitions_inclusive(ex, angles, position) ==
    IF ex \notin exercise_configs
    THEN [raised |-> TRUE, new_rep |-> FALSE, position |-> position]
    ELSE IF ex \in {"squats", "pushups", "lunges"}
    THEN LET p2 == primary_angle2(ex, angles)
         IN  IF position = "up" /\ ~Gt(p2, 2 * rep_threshold_down) /\ p2 # NaN
             THEN [raised |-> FALSE, new_rep |-> FALSE, position |-> "down"]
             ELSE IF position = "down" /\ ~Lt(p2, 2 * rep_threshold_up) /\ p2 # NaN
             THEN [raised |-> FALSE, new_rep |-> TRUE, position |-> "up"]
             ELSE IF position = "unset"
             THEN [raised |-> FALSE, new_rep |-> FALSE,
                   position |-> IF Gt(p2, 2 * rep_threshold_up) THEN "up" ELSE "down"]
             ELSE [raised |-> FALSE, new_rep |-> FALSE, position |-> position]
    ELSE [raised |-> FALSE, new_rep |-> FALSE, position |-> position]

\* count_repetitions with the up-threshold used in both directions.
count_repetitions_one_threshold(ex, angles, position) ==
    IF ex \notin exercise_configs
    THEN [raised |-> TRUE, new_rep |-> FALSE, position |-> position]
    ELSE IF ex \in {"squats", "pushups", "lunges"}
    THEN LET p2 == primary_angle2(ex, angles)
         IN  IF position = "up" /\ Lt(p2, 2 * rep_threshold_up)
             THEN [raised |-> FALSE, new_rep |-> FALSE, position |-> "down"]
             ELSE IF position = "down" /\ Gt(p2, 2 * rep_threshold_up)
             THEN [raised |-> FALSE, new_rep |-> TRUE, position |-> "up"]
             ELSE IF position = "unset"
             THEN [raised |-> FALSE, new_rep |-> FALSE,
                   position |-> IF Gt(p2, 2 * rep_threshold_up) THEN "up" ELSE "down"]
             ELSE [raised |-> FALSE, new_rep |-> FALSE, position |-> position]
    ELSE [raised |-> FALSE, new_rep |-> FALSE, position |-> position]

count_repetitions(ex, angles, position) ==
    IF ex \notin exercise_configs
    THEN [raised |-> TRUE, new_rep |-> FALSE, position |-> position]
    ELSE IF ex \in {"squats", "pushups", "lunges"}
    THEN LET p2 == primary_angle2(ex, angles)
         IN  IF position = "up" /\ Lt(p2, 2 * rep_threshold_down)
             THEN [raised |-> FALSE, new_rep |-> FALSE, position |-> "down"]
             ELSE IF position = "down" /\ Gt(p2, 2 * rep_threshold_up)
             THEN [raised |-> FALSE, new_rep |-> TRUE, position |-> "up"]
             ELSE IF position = "unset"
             THEN [raised |-> FALSE, new_rep |-> FALSE,
                   position |-> IF Gt(p2, 2 * rep_threshold_up) THEN "up" ELSE "down"]
             ELSE [raised |-> FALSE, new_rep |-> FALSE, position |-> position]
    ELSE [raised |-> FALSE, new_rep |-> FALSE, position |-> position]

\* is_plank_position comparing with the hold_threshold (170) of the config.
is_plank_position_hold_threshold(angles) ==
    LET back_angle == Get(angles, "back_angle", 0)
    IN  Gt(back_angle, 170) /\ Lt(back_angle, 190)

\* is_plank_position
is_plank_position(angles) ==
    LET back_angle == Get(angles, "back_angle", 0)
    IN  Gt(back_angle, 160) /\ Lt(back_angle, 190)

---------------------------------------------------------------------------
(* analyze_video_file *)

\* timestamp = frame_count / fps, in ms (fps is not 0 where this is used).
Timestamp(n) == (n * 1000) \div fps

\* "warning" also at a score of exactly 0.7.
severity_inclusive(form_score) == IF form_score <= 7 THEN "warning" ELSE "info"

severity(form_score) == IF form_score < 7 THEN "warning" ELSE "info"

\* FormFeedback(...) for every message of the frame, in order.
FeedbackEvents(timestamp, form_score, feedback) ==
    [i \in 1..Len(feedback) |->
        [timestamp |-> timestamp, message |-> feedback[i],
         severity |-> severity(form_score)]]

\* PlankData(...) with the duration taken from end to start.
PlankData_backwards(start, end_time, scores, buffer) ==
    [start_time |-> start, end_time |-> end_time, duration |-> start - end_time,
     form_quality |-> IF scores # <<>> THEN Mean(LastN(scores, 10)) ELSE Const(5),
     feedback |-> ToSet(buffer)]

\* PlankData(...) closing the hold opened at start, at time end_time.
PlankData(start, end_time, scores, buffer) ==
    [start_time |-> start, end_time |-> end_time, duration |-> end_time - start,
     form_quality |-> IF scores # <<>> THEN Mean(LastN(scores, 10)) ELSE Const(5),
     feedback |-> ToSet(buffer)]

\* RepetitionData(...) with the number of the previous repetition.
RepetitionData_same_number(count, timestamp, form_quality, feedback) ==
    [rep_number |-> count, timestamp |-> timestamp,
     form_quality |-> form_quality, feedback |-> feedback]

\* RepetitionData(...) for the repetition completed on the frame at
\* timestamp, count being the repetitions completed before it.
RepetitionData(count, timestamp, form_quality, feedback) ==
    [rep_number |-> count + 1, timestamp |-> timestamp,
     form_quality |-> form_quality, feedback |-> feedback]

\* The rep position kept from whatever ran before.
new_rep_state_kept == rep_state

\* rep_state = {}: no position is stored when a run starts.
new_rep_state == "unset"

\* form_scores = []
new_form_scores == <<>>

\* The call being made: the first, or the second on the same file.
job == IF previous_run.done THEN 2 ELSE 1

Init ==
    /\ pc = "start"
    /\ exercise_type \in ExerciseIds
    /\ fps = 0
    /\ total_frames = 0
    /\ frame_count = 0
    /\ poses_detected = 0
    /\ repetitions = <<>>
    /\ plank_sessions = <<>>
    /\ form_feedback = <<>>
    /\ rep_count = 0
    /\ rep_state = "unset"
    /\ plank_start_time = None
    /\ current_plank_feedback = <<>>
    /\ form_scores = <<>>
    /\ video = <<>>
    /\ result = NoResult
    /\ error = "none"
    /\ ret = NoResult
    /\ pose_fed = {}
    /\ previous_run = NoPreviousRun
    /\ points = <<>>
    /\ tmpdir = NoFiles
    /\ requests = NoRequests

\* cv2.VideoCapture(video_path) does not open: ValueError.
OpenFails ==
    /\ pc = "start"
    /\ ~previous_run.done
    /\ pc' = "raised"
    /\ error' = "ValueError"
    /\ UNCHANGED <<exercise_type, fps, total_frames, frame_count, poses_detected,
                   repetitions, plank_sessions, form_feedback, rep_count, rep_state,
                   plank_start_time, current_plank_feedback, form_scores, video,
                   result, ret, pose_fed, previous_run,
                   points, tmpdir, requests>>

\* The capture opens: fps and total_frames are read from it and the
\* analysis variables are initialised.
Open ==
    /\ pc = "start"
    /\ \E f \in FpsValues, n \in 0..MaxDeclaredFrames :
          /\ previous_run.done => (f = previous_run.fps /\ n = previous_run.total_frames)
          /\ fps' = f
          /\ total_frames' = n
    /\ frame_count' = 0
    /\ poses_detected' = 0
    /\ repetitions' = <<>>
    /\ plank_sessions' = <<>>
    /\ form_feedback' = <<>>
    /\ rep_count' = 0
    /\ rep_state' = new_rep_state
    /\ plank_start_time' = None
    /\ current_plank_feedback' = <<>>
    /\ form_scores' = new_form_scores
    /\ pc' = "loop"
    /\ UNCHANGED <<exercise_type, video, result, error, ret, pose_fed, previous_run,
                   points, tmpdir, requests>>

\* The hold buffer carried over into a hold that opens.
plank_feedback_at_kept(opens) == current_plank_feedback

\* The hold buffer a plank frame starts from: current_plank_feedback = []
\* when the frame opens a hold.
plank_feedback_at(opens) == IF opens THEN <<>> ELSE current_plank_feedback

\* One pass of the while loop with ret true: the frame fr is read.
ProcessFrame(fr) ==
    /\ frame_count' = frame_count + 1
    /\ video' = Append(video, fr)
    /\ pose_fed' = IF fps = 0 THEN pose_fed ELSE pose_fed \cup {job}
    /\ UNCHANGED <<exercise_type, fps, total_frames, result, ret, previous_run,
                   points, tmpdir, requests>>
    /\ IF fps = 0
       THEN \* frame_count / fps
            /\ pc' = "raised"
            /\ error' = "ZeroDivisionError"
            /\ UNCHANGED <<poses_detected, repetitions, plank_sessions, form_feedback,
                           rep_count, rep_state, plank_start_time,
                           current_plank_feedback, form_scores>>
       ELSE IF ~pose_landmarks(fr)
       THEN UNCHANGED <<pc, error, poses_detected, repetitions, plank_sessions,
                        form_feedback, rep_count, rep_state, plank_start_time,
                        current_plank_feedback, form_scores>>
       ELSE
         LET timestamp == Timestamp(frame_count + 1)
             angles == calculate_exercise_angles(fr, exercise_type)
             form == analyze_form(fr, angles, exercise_type)
             scores == Append(form_scores, form.score)
         IN  /\ poses_detected' = poses_detected + 1
             /\ form_scores' = scores
             /\ form_feedback' =
                    form_feedback \o FeedbackEvents(timestamp, form.score, form.feedback)
             /\ IF exercise_type # "planks"
                THEN LET c == count_repetitions(exercise_type, angles, rep_state)
                     IN  /\ pc' = IF c.raised THEN "raised" ELSE pc
                         /\ error' = IF c.raised THEN "KeyError" ELSE error
                         /\ rep_state' = c.position
                         /\ rep_count' = IF c.new_rep THEN rep_count + 1 ELSE rep_count
                         /\ repetitions' =
                               IF c.new_rep
                               THEN Append(repetitions,
                                      RepetitionData(rep_count, timestamp,
                                                     form.score, form.feedback))
                               ELSE repetitions
                         /\ UNCHANGED <<plank_sessions, plank_start_time,
                                        current_plank_feedback>>
                ELSE LET in_plank == is_plank_position(angles)
                         opens == in_plank /\ plank_start_time = None
                         closes == ~in_plank /\ plank_start_time # None
                         buffer == plank_feedback_at(opens)
                     IN  /\ plank_start_time' =
                               IF opens THEN timestamp
                               ELSE IF closes THEN None ELSE plank_start_time
                         /\ plank_sessions' =
                               IF closes
                               THEN Append(plank_sessions,
                                      PlankData(plank_start_time, timestamp, scores,
                                                current_plank_feedback))
                               ELSE plank_sessions
                         /\ current_plank_feedback' =
                               IF in_plank THEN buffer \o form.feedback ELSE buffer
                         /\ UNCHANGED <<pc, error, rep_state, rep_count, repetitions>>

ReadFrame ==
    /\ pc = "loop"
    /\ frame_count < MaxFrames
    /\ \E fr \in Frames(exercise_type) :
          /\ previous_run.done =>
                 /\ frame_count < Len(previous_run.video)
                 /\ fr = previous_run.video[frame_count + 1]
          /\ ProcessFrame(fr)

\* One pass of the while loop in which cv2.cvtColor or self.pose.process
\* raises on the frame read: nothing catches it inside analyze_video_file,
\* the exception leaves the function and with it the local variables.
FrameRaises ==
    /\ pc = "loop"
    /\ frame_count < MaxFrames
    /\ fps # 0
    /\ ~previous_run.done
    /\ frame_count' = frame_count + 1
    /\ video' = Append(video, NoPose)
    /\ pc' = "raised"
    /\ error' = "RuntimeError"
    /\ UNCHANGED <<exercise_type, fps, total_frames, poses_detected, repetitions,
                   plank_sessions, form_feedback, rep_count, rep_state,
                   plank_start_time, current_plank_feedback, form_scores, result,
                   ret, pose_fed, previous_run,
                   points, tmpdir, requests>>

RECURSIVE SumDurations(_)
SumDurations(sessions) ==
    IF sessions = <<>> THEN 0
    ELSE Head(sessions).duration + SumDurations(Tail(sessions))

RECURSIVE MaxQuality(_)
MaxQuality(reps) ==
    IF Len(reps) = 1 THEN Head(reps).form_quality
    ELSE Max(Head(reps).form_quality, MaxQuality(Tail(reps)))

\* np.std with the sample (n - 1) denominator.
Variance_sample(reps) ==
    LET q == [i \in 1..Len(reps) |-> reps[i].form_quality]
        sq == [i \in 1..Len(reps) |-> q[i] * q[i]]
        n == Len(reps)
    IN  [num |-> n * SumSeq(sq) - SumSeq(q) * SumSeq(q),
         den |-> 100 * n * Max(1, n - 1)]

\* np.std(q) ** 2 for the form qualities q (tenths) of the repetitions, as
\* the fraction num / den: (n * sum(q^2) - sum(q)^2) / (100 * n^2).
Variance(reps) ==
    LET q == [i \in 1..Len(reps) |-> reps[i].form_quality]
        sq == [i \in 1..Len(reps) |-> q[i] * q[i]]
        n == Len(reps)
    IN  [num |-> n * SumSeq(sq) - SumSeq(q) * SumSeq(q), den |-> 100 * n * n]

\* f"{total_plank_time:.1f}": seconds with one decimal, as tenths of a second.
Format1(ms) == (ms + 50) \div 100

\* overall_feedback with the summary line added whatever the count is.
OverallFeedback_always(ex, avg, reps, plank_time) ==
    LET quality ==
            IF avg.num > 8 * avg.den
            THEN [text |-> "Excellent form overall!", n |-> None]
            ELSE IF avg.num > 6 * avg.den
            THEN [text |-> "Good form with room for improvement", n |-> None]
            ELSE [text |-> "Focus on form - quality over quantity", n |-> None]
    IN  IF ex # "planks"
        THEN <<quality, [text |-> "Completed repetitions", n |-> reps]>>
        ELSE <<quality, [text |-> "Held plank for seconds total",
                         n |-> Format1(plank_time)]>>

\* The summary lines of overall_feedback, each with the number it shows.
OverallFeedback(ex, avg, reps, plank_time) ==
    LET quality ==
            IF avg.num > 8 * avg.den
            THEN [text |-> "Excellent form overall!", n |-> None]
            ELSE IF avg.num > 6 * avg.den
            THEN [text |-> "Good form with room for improvement", n |-> None]
            ELSE [text |-> "Focus on form - quality over quantity", n |-> None]
    IN  IF ex # "planks" /\ reps > 0
        THEN <<quality, [text |-> "Completed repetitions", n |-> reps]>>
        ELSE IF ex = "planks" /\ plank_time > 0
        THEN <<quality, [text |-> "Held plank for seconds total",
                         n |-> Format1(plank_time)]>>
        ELSE <<quality>>

\* The loop's end leaving an open hold out of the sessions.
SessionsAtEnd_dropped == plank_sessions

\* The plank sessions once the loop has ended: a hold still open is closed
\* at frame_count / fps.
SessionsAtEnd ==
    IF exercise_type = "planks" /\ plank_start_time # None
    THEN Append(plank_sessions,
                PlankData(plank_start_time, Timestamp(frame_count), form_scores,
                          current_plank_feedback))
    ELSE plank_sessions

\* total_reps populated for every exercise.
total_reps_always == rep_count

\* The total_reps and plank_duration arguments of ExerciseAnalysisResult.
total_reps == IF exercise_type # "planks" THEN rep_count ELSE None
plank_duration(total_plank_time) ==
    IF exercise_type = "planks" THEN total_plank_time ELSE None

\* 1.0 - np.std(qualities) when there are repetitions, else 1.0 - 0: kept
\* as the variance np.std ** 2 the score is one minus the root of.
consistency_score(reps) ==
    [one_minus_sqrt |-> IF reps # <<>> THEN Variance(reps) ELSE Const(0)]

\* ExerciseAnalysisResult(...), analysis_duration being time.time() - start_time.
AnalysisResult(sessions, analysis_duration) ==
    LET avg_form_score == IF form_scores # <<>> THEN Mean(form_scores) ELSE Const(0)
        total_plank_time == SumDurations(sessions)
    IN  [exercise_type |-> exercise_type,
         total_frames |-> total_frames,
         frames_with_pose |-> poses_detected,
         analysis_duration |-> analysis_duration,
         total_reps |-> total_reps,
         plank_duration |-> plank_duration(total_plank_time),
         repetitions |-> repetitions,
         plank_sessions |-> sessions,
         average_form_score |-> avg_form_score,
         overall_feedback |->
             OverallFeedback(exercise_type, avg_form_score, rep_count, total_plank_time),
         form_feedback |-> form_feedback,
         best_rep_quality |->
             IF repetitions # <<>> THEN MaxQuality(repetitions) ELSE None,
         consistency_score |-> consistency_score(repetitions)]

\* cap.read() returns ret false: the loop ends, an open hold is closed and
\* the result is returned.
EndOfStream ==
    /\ pc = "loop"
    /\ previous_run.done => frame_count = Len(previous_run.video)
    /\ plank_sessions' = SessionsAtEnd
    /\ \E d \in Durations : result' = AnalysisResult(SessionsAtEnd, d)
    /\ pc' = "returned"
    /\ UNCHANGED <<exercise_type, fps, total_frames, frame_count, poses_detected,
                   repetitions, form_feedback, rep_count, rep_state, plank_start_time,
                   current_plank_feedback, form_scores, video, error, ret,
                   pose_fed, previous_run,
                   points, tmpdir, requests>>

Next ==
    \/ OpenFails
    \/ Open
    \/ ReadFrame
    \/ FrameRaises
    \/ EndOfStream

Spec == Init /\ [][Next]_vars

\* A second request for the same file and exercise reaches the one
\* vision_service after the first has returned: analyze_video_file is
\* called again, the variables of the first call still holding what it
\* left in them.
CallAgain ==
    /\ pc = "returned"
    /\ ~previous_run.done
    /\ Len(video) <= MaxReplayFrames
    /\ previous_run' = [done |-> TRUE, fps |-> fps, total_frames |-> total_frames,
                        video |-> video, result |-> result]
    /\ pc' = "start"
    /\ video' = <<>>
    /\ result' = NoResult
    /\ UNCHANGED <<exercise_type, fps, total_frames, frame_count, poses_detected,
                   repetitions, plank_sessions, form_feedback, rep_count, rep_state,
                   plank_start_time, current_plank_feedback, form_scores, error, ret,
                   pose_fed, points, tmpdir, requests>>

\* One analysis, and the same analysis made a second time.
ReplaySpec == Init /\ [][Next \/ CallAgain]_vars

---------------------------------------------------------------------------
(* One function applied to one pose: the pose is video[1], the stored      *)
(* position is rep_state, the value returned is ret.                       *)

UnitInit ==
    /\ pc = "unit"
    /\ exercise_type \in ExerciseIds
    /\ rep_state \in {"unset", "up", "down"}
    /\ \E fr \in UnitPoses(exercise_type) : video = <<fr>>
    /\ fps = 0
    /\ total_frames = 0
    /\ frame_count = 0
    /\ poses_detected = 0
    /\ repetitions = <<>>
    /\ plank_sessions = <<>>
    /\ form_feedback = <<>>
    /\ rep_count = 0
    /\ plank_start_time = None
    /\ current_plank_feedback = <<>>
    /\ form_scores = <<>>
    /\ result = NoResult
    /\ error = "none"
    /\ ret = NoResult
    /\ pose_fed = {}
    /\ previous_run = NoPreviousRun
    /\ points = <<>>
    /\ tmpdir = NoFiles
    /\ requests = NoRequests

UnitReturn(fn, value) ==
    /\ pc = "unit"
    /\ pc' = "unit_done"
    /\ ret' = [fn |-> fn, value |-> value]
    /\ UNCHANGED <<exercise_type, fps, total_frames, frame_count, poses_detected,
                   repetitions, plank_sessions, form_feedback, rep_count, rep_state,
                   plank_start_time, current_plank_feedback, form_scores, video,
                   result, error, pose_fed, previous_run,
                   points, tmpdir, requests>>

UnitAngleSet == calculate_exercise_angles(video[1], exercise_type)

CallAnalyzeForm ==
    UnitReturn("analyze_form", analyze_form(video[1], UnitAngleSet, exercise_type))

CallCountRepetitions ==
    UnitReturn("count_repetitions",
               count_repetitions(exercise_type, UnitAngleSet, rep_state))

CallIsPlankPosition ==
    UnitReturn("is_plank_position", is_plank_position(UnitAngleSet))

CallCalculateExerciseAngles ==
    UnitReturn("calculate_exercise_angles", UnitAngleSet)

\* The (x, y) a keypoint can have, and the vectors along the axes and the
\* diagonals (or of length zero).
Grid == (0..MaxCoord) \X (0..MaxCoord)
Compass(p, q) ==
    \/ p[1] = q[1]
    \/ p[2] = q[2]
    \/ p[1] - q[1] = p[2] - q[2]
    \/ p[1] - q[1] = q[2] - p[2]

\* calculate_angle called on three points.
AngleInit ==
    /\ pc = "angle"
    /\ exercise_type = "squats"
    /\ \E a \in Grid, b \in Grid, c \in Grid :
          /\ Compass(a, b)
          /\ Compass(c, b)
          /\ points = <<a, b, c>>
    /\ rep_state = "unset"
    /\ video = <<>>
    /\ fps = 0
    /\ total_frames = 0
    /\ frame_count = 0
    /\ poses_detected = 0
    /\ repetitions = <<>>
    /\ plank_sessions = <<>>
    /\ form_feedback = <<>>
    /\ rep_count = 0
    /\ plank_start_time = None
    /\ current_plank_feedback = <<>>
    /\ form_scores = <<>>
    /\ result = NoResult
    /\ error = "none"
    /\ ret = NoResult
    /\ pose_fed = {}
    /\ previous_run = NoPreviousRun
    /\ tmpdir = NoFiles
    /\ requests = NoRequests

CallCalculateAngle ==
    /\ pc = "angle"
    /\ pc' = "unit_done"
    /\ ret' = [fn |-> "calculate_angle",
               value |-> calculate_angle(points[1], points[2], points[3])]
    /\ UNCHANGED <<exercise_type, fps, total_frames, frame_count, poses_detected,
                   repetitions, plank_sessions, form_feedback, rep_count, rep_state,
                   plank_start_time, current_plank_feedback, form_scores, video,
                   result, error, pose_fed, previous_run, points, tmpdir, requests>>

\* The form_quality values a RepetitionData can hold (tenths).
Qualities == 0..10

\* The repetitions with the qualities qs, 40 ms apart.
RepsOf(qs) == [i \in 1..Len(qs) |-> RepetitionData(i - 1, 40 * i, qs[i], <<>>)]

\* The final metrics computed over any repetitions: the state at line 380
\* of a run that has emitted the repetitions with qualities qs.
StatsInit ==
    /\ pc = "stats"
    /\ exercise_type = "squats"
    /\ \E n \in 0..MaxReps : \E qs \in [1..n -> Qualities] : repetitions = RepsOf(qs)
    /\ rep_count = Len(repetitions)
    /\ rep_state = "up"
    /\ video = <<>>
    /\ fps = 25
    /\ total_frames = 0
    /\ frame_count = 0
    /\ poses_detected = 0
    /\ plank_sessions = <<>>
    /\ form_feedback = <<>>
    /\ plank_start_time = None
    /\ current_plank_feedback = <<>>
    /\ form_scores = <<>>
    /\ result = NoResult
    /\ error = "none"
    /\ ret = NoResult
    /\ pose_fed = {}
    /\ previous_run = NoPreviousRun
    /\ points = <<>>
    /\ tmpdir = NoFiles
    /\ requests = NoRequests

CallConsistencyScore ==
    /\ pc = "stats"
    /\ pc' = "unit_done"
    /\ ret' = [fn |-> "consistency_score", value |-> consistency_score(repetitions)]
    /\ UNCHANGED <<exercise_type, fps, total_frames, frame_count, poses_detected,
                   repetitions, plank_sessions, form_feedback, rep_count, rep_state,
                   plank_start_time, current_plank_feedback, form_scores, video,
                   result, error, pose_fed, previous_run,
                   points, tmpdir, requests>>

UnitNext ==
    \/ CallAnalyzeForm
    \/ CallCountRepetitions
    \/ CallIsPlankPosition
    \/ CallConsistencyScore
    \/ CallCalculateExerciseAngles
    \/ CallCalculateAngle

UnitSpec == (UnitInit \/ StatsInit \/ AngleInit) /\ [][UnitNext]_vars

\* The analysis runs and the single calls together.
FullSpec == (Init \/ UnitInit \/ StatsInit \/ AngleInit) /\ [][Next \/ UnitNext]_vars

---------------------------------------------------------------------------
(* The upload route: validate_video_file and analyze_video.  Each request  *)
(* is a coroutine; an action is the code one request runs from one await   *)
(* to the next.  A file of tmpdir is [path, inode, content]: the content   *)
(* is {} after open(..., 'wb') and {r} when the bytes written last are     *)
(* those of request r.                                                     *)

RequestIds == {1, 2}
Filenames == {"a.mp4", "b.mp4", "notes.txt"}
SUPPORTED_FORMATS == {"a.mp4", "b.mp4"}
Seconds == 0..MaxSecond

\* What analyze_video_file found at temp_path: nothing yet, no file
\* (found false), or a file with the bytes of some request (none: empty).
NotAnalyzed == [called |-> FALSE, found |-> FALSE, bytes |-> {}]
Analyzed(files) ==
    [called |-> TRUE, found |-> files # {},
     bytes |-> UNION {f.content : f \in files}]

\* A request as it arrives: the name of its file, whether the UploadFile
\* has a size, and whether its content is larger than MAX_FILE_SIZE.
NewRequest(filename, has_size, too_large) ==
    [pc |-> "new", filename |-> filename, has_size |-> has_size,
     too_large |-> too_large, second |-> None, inode |-> None,
     status |-> None, analyzed |-> NotAnalyzed]

\* temp_path: upload_{int(time.time())}_{file.filename} in the temp dir.
temp_path(r) == <<requests[r].second, requests[r].filename>>

\* The file at a path, as a set of at most one file.
FileAt(path) == {f \in tmpdir : f.path = path}

\* os.remove(path) when os.path.exists(path).
Removed(path) == tmpdir \ FileAt(path)

RouteInit ==
    /\ pc = "route"
    /\ exercise_type = "squats"
    /\ requests \in [RequestIds ->
                        {NewRequest(n, h, l) : n \in Filenames, h \in BOOLEAN,
                                               l \in BOOLEAN}]
    /\ tmpdir = NoFiles
    /\ points = <<>>
    /\ rep_state = "unset"
    /\ video = <<>>
    /\ fps = 0
    /\ total_frames = 0
    /\ frame_count = 0
    /\ poses_detected = 0
    /\ repetitions = <<>>
    /\ plank_sessions = <<>>
    /\ form_feedback = <<>>
    /\ rep_count = 0
    /\ plank_start_time = None
    /\ current_plank_feedback = <<>>
    /\ form_scores = <<>>
    /\ result = NoResult
    /\ error = "none"
    /\ ret = NoResult
    /\ pose_fed = {}
    /\ previous_run = NoPreviousRun

\* A step of the route leaves the analysis variables alone.
RouteFrame ==
    UNCHANGED <<pc, exercise_type, fps, total_frames, frame_count, poses_detected,
                repetitions, plank_sessions, form_feedback, rep_count, rep_state,
                plank_start_time, current_plank_feedback, form_scores, video,
                result, error, ret, pose_fed, previous_run, points>>

\* The request ends with an HTTP status.
Responds(r, status) ==
    requests' = [requests EXCEPT ![r].pc = "done", ![r].status = status]

\* validate_video_file up to the await of aiofiles.open: the extension and
\* size checks, then the temp path is made from the current second and the
\* file is opened for writing, which creates it or truncates the one there.
ValidateAndOpen(r) ==
    /\ requests[r].pc = "new"
    /\ IF requests[r].filename \notin SUPPORTED_FORMATS
       THEN Responds(r, 400) /\ UNCHANGED tmpdir
       ELSE IF requests[r].has_size /\ requests[r].too_large
       THEN Responds(r, 413) /\ UNCHANGED tmpdir
       ELSE \E t \in Seconds :
              LET path == <<t, requests[r].filename>>
                  node == IF FileAt(path) = {} THEN r
                          ELSE (CHOOSE f \in FileAt(path) : TRUE).inode
              IN  /\ \A q \in RequestIds :
                        requests[q].second # None => requests[q].second <= t
                  /\ tmpdir' = Removed(path)
                                  \cup {[path |-> path, inode |-> node,
                                         content |-> {}]}
                  /\ requests' = [requests EXCEPT ![r].pc = "opened",
                                                  ![r].second = t,
                                                  ![r].inode = node]
    /\ RouteFrame

\* content = await file.read() and the check of len(content): the
\* HTTPException(413) is raised inside the try and caught by its
\* "except Exception", which removes the file at temp_path and raises
\* HTTPException(500).
ReadContent(r) ==
    /\ requests[r].pc = "opened"
    /\ IF requests[r].too_large
       THEN /\ tmpdir' = Removed(temp_path(r))
            /\ Responds(r, 500)
       ELSE /\ requests' = [requests EXCEPT ![r].pc = "read"]
            /\ UNCHANGED tmpdir
    /\ RouteFrame

\* await temp_file.write(content), into the file the request has open.
WriteContent(r) ==
    /\ requests[r].pc = "read"
    /\ tmpdir' = {IF f.path = temp_path(r) /\ f.inode = requests[r].inode
                  THEN [f EXCEPT !.content = {r}] ELSE f : f \in tmpdir}
    /\ requests' = [requests EXCEPT ![r].pc = "saved"]
    /\ RouteFrame

\* analyze_video from the return of validate_video_file on, without an
\* await: analyze_video_file opens temp_path (ValueError, so 400, when
\* there is no video there), the response is built, and the finally
\* clause removes the file at temp_path.
AnalyzeAndRemove(r) ==
    /\ requests[r].pc = "saved"
    /\ LET seen == Analyzed(FileAt(temp_path(r)))
       IN  requests' = [requests EXCEPT
                           ![r].pc = "done",
                           ![r].analyzed = seen,
                           ![r].status = IF seen.bytes = {} THEN 400 ELSE 200]
    /\ tmpdir' = Removed(temp_path(r))
    /\ RouteFrame

RouteNext ==
    \E r \in RequestIds :
        \/ ValidateAndOpen(r)
        \/ ReadContent(r)
        \/ WriteContent(r)
        \/ AnalyzeAndRemove(r)

RouteSpec == RouteInit /\ [][RouteNext]_vars

---------------------------------------------------------------------------
(* Properties.  What a claim says about a frame is written here from the   *)
(* frame itself (video), not with the operators of the model above.        *)

\* A step that reads a frame / a frame with a pose and processes it.
ReadsFrame == pc = "loop" /\ frame_count' = frame_count + 1
ReadsPose == ReadsFrame /\ fps # 0 /\ video'[Len(video')].pose
ReadsNoPose == ReadsFrame /\ ~video'[Len(video')].pose

Standing == Pose(170, 170, 170, 170, 175, 30, 50)
Squatting == Pose(85, 85, 170, 170, 175, 30, 50)
\* Scenario A: primary angles 170, 170, 85, 85, 170, 170.
ScenarioA == <<Standing, Standing, Squatting, Squatting, Standing, Standing>>

C1_RepStep ==
    exercise_type \in RepExercises =>
        /\ rep_count' \in {rep_count, rep_count + 1}
        /\ (rep_count' = rep_count + 1) <=> (rep_state = "down" /\ rep_state' = "up")
        /\ rep_state = "unset" => rep_count' = rep_count
        /\ Len(repetitions') = rep_count'
        /\ rep_count' = rep_count => repetitions' = repetitions

C1_ScenarioA ==
    /\ (exercise_type = "squats" /\ Len(video) <= 4 /\ video = SubSeq(ScenarioA, 1, Len(video)))
           => rep_count = 0
    /\ (exercise_type = "squats" /\ Len(video) \in {5, 6}
            /\ video = SubSeq(ScenarioA, 1, Len(video)))
           => /\ rep_count = 1
              /\ Len(repetitions) = 1
              /\ repetitions[1].timestamp = Timestamp(5)

\* C1: for squats, pushups and lunges the rep count never decreases; it
\* grows by exactly 1 on exactly the steps that take the stored position from
\* DOWN to UP, and on no other step (not on the bootstrap from UNSET); each
\* such step emits one RepEvent.  Primary angles 170,170,85,85,170,170 give
\* exactly one RepEvent, emitted at the 5th frame.
C1_RepCountFollowsDownUp == [][C1_RepStep]_vars /\ []C1_ScenarioA

C1_Witness ==
    /\ exercise_type = "squats"
    /\ video = ScenarioA
    /\ rep_count = 1
    /\ pc = "returned"

\* The primary angle of a pose, twice: the spec's "mean of paired knee/elbow
\* angles, or front_knee alone for lunges".
Primary2(ex, fr) ==
    LET a == CASE ex = "squats" -> <<fr.knee_l, fr.knee_r>>
               [] ex = "pushups" -> <<fr.elbow_l, fr.elbow_r>>
               [] OTHER -> <<fr.knee_l, fr.knee_l>>
    IN  IF a[1] = NaN \/ a[2] = NaN THEN NaN ELSE a[1] + a[2]

\* The transition table of the claim, for a primary angle that is a number.
NextPosition(position, p2) ==
    CASE position = "unset" -> IF p2 > 2 * 160 THEN "up" ELSE "down"
      [] position = "up" -> IF p2 < 2 * 90 THEN "down" ELSE "up"
      [] OTHER -> IF p2 > 2 * 160 THEN "up" ELSE "down"

\* C2: count_repetitions takes UNSET to UP if the primary angle > 160 and to
\* DOWN otherwise, UP to DOWN iff the angle < 90, DOWN to UP iff the angle
\* > 160, and leaves the position unchanged in every other case; the
\* position it returns is UP or DOWN, never UNSET.
C2_NextPosition ==
    (pc = "unit_done" /\ ret.fn = "count_repetitions" /\ exercise_type \in RepExercises)
        => LET p2 == Primary2(exercise_type, video[1])
           IN  /\ ret.value.position \in {"up", "down"}
               /\ p2 # NaN => ret.value.position = NextPosition(rep_state, p2)
               /\ p2 = NaN => ret.value.position =
                                  IF rep_state = "unset" THEN "down" ELSE rep_state
               /\ ret.value.new_rep <=> (rep_state = "down" /\ ret.value.position = "up")

\* A call on the boundary: position UP, primary angle exactly 90.
C2_Witness ==
    /\ pc = "unit_done" /\ ret.fn = "count_repetitions"
    /\ exercise_type = "pushups"
    /\ rep_state = "up"
    /\ Primary2(exercise_type, video[1]) = 2 * 90
    /\ ret.value.position = "up"

\* The claim's "in position": 160 < back_angle < 190.
InPosition(fr) == fr.trunk # NaN /\ 160 < fr.trunk /\ fr.trunk < 190

BackBent == Pose(170, 170, 90, 90, 150, 50, 50)
Back165 == Pose(170, 170, 90, 90, 165, 50, 50)
Back175 == Pose(170, 170, 90, 90, 175, 50, 40)
\* Scenario B: back angles 150, 165, 175, 175, 150.
ScenarioB == <<BackBent, Back165, Back175, Back175, BackBent>>

C3_HoldStep ==
    (exercise_type = "planks" /\ ReadsPose) =>
        LET fr == video'[Len(video')]
            t == Timestamp(frame_count)'
            opens == InPosition(fr) /\ plank_start_time = None
            closes == ~InPosition(fr) /\ plank_start_time # None
        IN  /\ opens => plank_start_time' = t /\ plank_sessions' = plank_sessions
            /\ closes =>
                  /\ plank_start_time' = None
                  /\ Len(plank_sessions') = Len(plank_sessions) + 1
                  /\ SubSeq(plank_sessions', 1, Len(plank_sessions)) = plank_sessions
                  /\ LET h == plank_sessions'[Len(plank_sessions')]
                     IN  /\ h.start_time = plank_start_time
                         /\ h.end_time = t
                         /\ h.duration = h.end_time - h.start_time
            /\ (~opens /\ ~closes) =>
                  UNCHANGED <<plank_start_time, plank_sessions>>

C3_ScenarioB ==
    (exercise_type = "planks" /\ video = ScenarioB) =>
        /\ Len(plank_sessions) = 1
        /\ plank_sessions[1].start_time = Timestamp(2)
        /\ plank_sessions[1].end_time = Timestamp(5)
        /\ plank_start_time = None

\* C3: in a plank analysis a hold is opened at exactly the pose frames that
\* are in position (160 < back_angle < 190) while no hold is open, with that
\* frame's timestamp as start_time, and closed at exactly the next pose frame
\* that is not in position, with that frame's timestamp as end_time and
\* duration = end_time - start_time; no other pose frame opens or closes a
\* hold.  Back angles 150,165,175,175,150 give exactly one session, opened at
\* frame 2 and closed at frame 5.
C3_HoldOpensAndCloses == [][C3_HoldStep]_vars /\ []C3_ScenarioB

C3_Witness ==
    /\ exercise_type = "planks"
    /\ video = ScenarioB
    /\ Len(plank_sessions) = 1
    /\ plank_sessions[1].duration = 3 * 40

\* Whether the last frame of v that has a pose is in position.
RECURSIVE LastPoseInPosition(_)
LastPoseInPosition(v) ==
    IF v = <<>> THEN FALSE
    ELSE IF v[Len(v)].pose THEN InPosition(v[Len(v)])
    ELSE LastPoseInPosition(SubSeq(v, 1, Len(v) - 1))

C4_EndStep ==
    (exercise_type = "planks" /\ pc = "loop" /\ pc' = "returned") =>
        /\ result'.plank_sessions = plank_sessions'
        /\ IF LastPoseInPosition(video)
           THEN /\ Len(plank_sessions') = Len(plank_sessions) + 1
                /\ SubSeq(plank_sessions', 1, Len(plank_sessions)) = plank_sessions
                /\ LET h == plank_sessions'[Len(plank_sessions')]
                   IN  /\ h.start_time = plank_start_time
                       /\ h.start_time # None
                       /\ h.end_time = (Len(video) * 1000) \div fps
                       /\ h.duration = h.end_time - h.start_time
           ELSE plank_sessions' = plank_sessions

\* C4: when a plank video ends while a hold is open (its last pose frame was
\* in position), exactly one further session is appended after the last
\* frame, with end_time the timestamp of the final frame read and duration
\* = end_time - start_time, and it is part of the result; when no hold is
\* open nothing is appended.
C4_OpenHoldClosedAtEnd == [][C4_EndStep]_vars

\* A video that ends two frames (one of them without a pose) after the hold
\* was opened.
C4_Witness ==
    /\ pc = "returned"
    /\ exercise_type = "planks"
    /\ video = <<BackBent, Back165, NoPose>>
    /\ Len(result.plank_sessions) = 1
    /\ result.plank_sessions[1].end_time = 120

\* C5: analyze called with an exercise_type that is not configured fails
\* before any frame is read and never returns a result.
C5_UnsupportedFailsFast ==
    exercise_type \notin {"squats", "pushups", "lunges", "planks"} =>
        /\ video = <<>>
        /\ pc # "returned"

\* C6: analyze fails when the source cannot be opened and when it opens but
\* yields zero frames; it never returns a result for an empty source.
C6_EmptySourceFails ==
    /\ (pc = "returned" => video # <<>>)
    /\ (pc = "raised" /\ video = <<>>) => error = "ValueError"

C7_NoPoseStep ==
    ReadsNoPose =>
        /\ frame_count' = frame_count + 1
        /\ UNCHANGED <<rep_state, rep_count, repetitions, plank_start_time,
                       current_plank_feedback, plank_sessions, form_scores,
                       form_feedback, poses_detected>>

\* C7: a frame without a pose changes nothing but the frame counter: the rep
\* position, the rep count and events, the open hold (start time and feedback
\* buffer), the sessions, the frame scores and the feedback events are the
\* same after the frame as before it.
C7_NoPoseFrameOnlyCounts == [][C7_NoPoseStep]_vars

\* A frame without a pose read while a hold is open.
C7_Witness ==
    /\ pc = "loop"
    /\ exercise_type = "planks"
    /\ video = <<Back165, NoPose>>
    /\ plank_start_time = 40
    /\ frame_count = 2

RECURSIVE PoseCount(_)
PoseCount(v) ==
    IF v = <<>> THEN 0
    ELSE (IF Head(v).pose THEN 1 ELSE 0) + PoseCount(Tail(v))

\* C8: in every completed analysis total_frames is the number of frames read
\* and frames_with_pose the number of them with a pose, so frames_with_pose
\* <= total_frames.
C8_FrameTotals ==
    pc = "returned" =>
        /\ result.total_frames = Len(video)
        /\ result.frames_with_pose = PoseCount(video)
        /\ result.frames_with_pose <= result.total_frames

\* C9: every form score analyze_form returns for a pose of a supported
\* exercise lies in [0,1] (0..10 tenths), and the average_form_score of
\* every result lies in [0,1].
C9_ScoresInUnitInterval ==
    /\ \A i \in DOMAIN form_scores : form_scores[i] \in 0..10
    /\ (pc = "unit_done" /\ ret.fn = "analyze_form" /\ exercise_type \in exercise_configs)
           => ret.value.score \in 0..10
    /\ pc = "returned" =>
           /\ result.average_form_score.den > 0
           /\ 0 <= result.average_form_score.num
           /\ result.average_form_score.num <= 10 * result.average_form_score.den

\* A result averaging a frame with every squat rule broken and a clean one.
C9_Witness ==
    /\ pc = "returned"
    /\ exercise_type = "squats"
    /\ form_scores = <<5, 10>>
    /\ result.average_form_score = [num |-> 15, den |-> 2]

\* C10: a plank result has no total_reps, no repetitions and a
\* plank_duration; a squats, pushups or lunges result has total_reps, no
\* plank_duration and no plank_sessions.
C10_RepsXorHold ==
    pc = "returned" =>
        /\ exercise_type = "planks" =>
               /\ result.total_reps = None
               /\ result.repetitions = <<>>
               /\ result.plank_duration # None /\ result.plank_duration >= 0
        /\ exercise_type \in RepExercises =>
               /\ result.total_reps # None /\ result.total_reps >= 0
               /\ result.plank_duration = None
               /\ result.plank_sessions = <<>>

\* A plank result with a hold in it, and nothing of a rep exercise.
C10_Witness ==
    /\ pc = "returned"
    /\ exercise_type = "planks"
    /\ Len(video) >= 3
    /\ result.plank_duration > 0
    /\ result.total_reps = None

NoPoseVideoDefaults ==
    /\ result.average_form_score.num = 0
    /\ exercise_type # "planks" => result.total_reps = 0
    /\ exercise_type = "planks" =>
           (result.plank_duration = 0 /\ result.plank_sessions = <<>>)
    /\ result.repetitions = <<>>
    /\ result.best_rep_quality = None
    /\ result.form_feedback = <<>>

\* C11: the analysis of a video of one or more frames, none with a pose,
\* ends without error and returns the defaults: average_form_score 0.0,
\* total_reps 0 (plank_duration 0.0 and no sessions for planks), no
\* repetitions, no best_rep_quality, no feedback events.  (The pose model
\* has answered "no pose" for every frame: none made it raise.)
C11_NoPoseVideoAnalyzed ==
    (/\ pc \in {"returned", "raised"}
     /\ exercise_type \in exercise_configs
     /\ video # <<>>
     /\ PoseCount(video) = 0
     /\ error # "RuntimeError")
        => (pc = "returned" /\ NoPoseVideoDefaults)

\* The events a step appends to form_feedback, and their messages.
NewEvents == SubSeq(form_feedback', Len(form_feedback) + 1, Len(form_feedback'))
NewMessages == [i \in 1..Len(NewEvents) |-> NewEvents[i].message]

C12_Numbered ==
    /\ \A i \in DOMAIN repetitions : repetitions[i].rep_number = i
    /\ Len(repetitions) = rep_count
    /\ (pc = "returned" /\ exercise_type # "planks") =>
           (result.repetitions = repetitions /\ result.total_reps = Len(repetitions))

C12_EmitStep ==
    pc = "loop" =>
        /\ SubSeq(repetitions', 1, Len(repetitions)) = repetitions
        /\ Len(repetitions') \in {Len(repetitions), Len(repetitions) + 1}
        /\ Len(repetitions') = Len(repetitions) + 1
              <=> (ReadsPose /\ rep_state = "down" /\ rep_state' = "up")
        /\ Len(repetitions') = Len(repetitions) + 1 =>
              LET ev == repetitions'[Len(repetitions')]
              IN  /\ ev.rep_number = rep_count + 1
                  /\ ev.timestamp = (Len(video') * 1000) \div fps
                  /\ ev.form_quality = form_scores'[Len(form_scores')]
                  /\ ev.feedback = NewMessages

\* C12: the repetitions are numbered 1, 2, ..., n in the order they were
\* emitted, one is appended exactly on a step from DOWN to UP and carries
\* that frame's timestamp, score and feedback, and total_reps is n.
C12_RepEventsNumbered == [](C12_Numbered) /\ [][C12_EmitStep]_vars

\* Two repetitions completed: squat, stand, squat, stand.
C12_Witness ==
    /\ pc = "returned"
    /\ exercise_type = "squats"
    /\ video = <<Squatting, Standing, Squatting, Standing>>
    /\ Len(result.repetitions) = 2
    /\ result.repetitions[2].timestamp = 160

\* C16: when an analysis is aborted by a failure on some frame after at
\* least one frame was processed, a partial result covering the frames
\* processed so far is available to the caller.
C16_PartialResultOnAbort ==
    (pc = "raised" /\ frame_count >= 2) => result # NoResult

\* C13: analysing the same frames with the same pose detections and the
\* same exercise a second time returns a result identical to the first in
\* every field.
C13_SameResultTwice ==
    (pc = "returned" /\ previous_run.done) => result = previous_run.result

C15_PoseModelNotShared == Cardinality(pose_fed) <= 1

\* The population variance of the form qualities of reps, computed from the
\* deviations from the mean: sum((n*q_i - S)^2) / (100 * n^3), S = sum(q).
DeviationSquares(reps) ==
    LET n == Len(reps)
        S == SumSeq([i \in 1..n |-> reps[i].form_quality])
    IN  SumSeq([i \in 1..n |-> (n * reps[i].form_quality - S)
                               * (n * reps[i].form_quality - S)])

\* The score c is 1 - sqrt(v) for a variance v in [0,1] that is the
\* population variance of the qualities of reps, and 1.0 without reps.
ConsistencyOf(c, reps) ==
    LET v == c.one_minus_sqrt
        n == Len(reps)
    IN  /\ v.den > 0
        /\ 0 <= v.num
        /\ v.num <= v.den
        /\ n = 0 => v.num = 0
        /\ n > 0 => v.num * (100 * n * n * n) = v.den * DeviationSquares(reps)

\* C17: consistency_score is in [0,1]: it is 1 minus the population standard
\* deviation of the repetitions' form_quality values, which is at most 1 for
\* qualities in [0,1], and 1.0 when there is no repetition.
C17_ConsistencyInUnitInterval ==
    /\ (pc = "unit_done" /\ ret.fn = "consistency_score") =>
           ConsistencyOf(ret.value, repetitions)
    /\ pc = "returned" => ConsistencyOf(result.consistency_score, result.repetitions)

\* Qualities 0.0 and 1.0: variance 0.25, consistency 0.5.
C17_Witness ==
    /\ pc = "unit_done"
    /\ ret.fn = "consistency_score"
    /\ Len(repetitions) = 2
    /\ repetitions[1].form_quality = 0
    /\ repetitions[2].form_quality = 10
    /\ ret.value.one_minus_sqrt = [num |-> 100, den |-> 400]

\* A comparison of angles is true only of two numbers.
Num(a) == a # NaN
TableRule(hit, penalty, message) == [hit |-> hit, penalty |-> penalty, message |-> message]

\* The rule table: for a frame fr, each rule of the exercise in order, with
\* whether fr violates it, its penalty in tenths and its message.
RuleTable(ex, fr) ==
    LET kl == fr.knee_l
        kr == fr.knee_r
        el == fr.elbow_l
        er == fr.elbow_r
        tr == fr.trunk
    IN  CASE ex = "squats" ->
               << TableRule(Num(kl) /\ Num(kr) /\ (kl - kr > 15 \/ kr - kl > 15), 2,
                            "Keep knees aligned"),
                  TableRule(Num(kl) /\ Num(kr) /\ kl + kr > 2 * 120, 1,
                            "Squat deeper for better range of motion"),
                  TableRule(Num(kl) /\ Num(kr) /\ kl + kr < 2 * 70, 1,
                            "Don't squat too deep"),
                  TableRule(fr.shoulder_y > fr.hip_y, 2,
                            "Keep chest up and back straight") >>
          [] ex = "pushups" ->
               << TableRule(Num(el) /\ Num(er) /\ (el - er > 20 \/ er - el > 20), 2,
                            "Keep elbows aligned"),
                  TableRule(Num(tr) /\ tr < 160, 3,
                            "Keep body straight - no sagging hips"),
                  TableRule(Num(tr) /\ tr > 190, 2, "Lower your hips") >>
          [] ex = "lunges" ->
               << TableRule(Num(kl) /\ kl < 80, 2,
                            "Don't let front knee go too far forward"),
                  TableRule(Num(kl) /\ kl > 110, 1,
                            "Lunge deeper for better activation") >>
          [] ex = "planks" ->
               << TableRule(Num(tr) /\ tr < 160, 3, "Straighten your back"),
                  TableRule(Num(tr) /\ tr > 190, 2, "Don't arch your back"),
                  TableRule(fr.hip_y < fr.shoulder_y, 2, "Lower your hips") >>

IsHit(rule) == rule.hit
Violated(ex, fr) == SelectSeq(RuleTable(ex, fr), IsHit)
PenaltySum(ex, fr) ==
    SumSeq([i \in 1..Len(Violated(ex, fr)) |-> Violated(ex, fr)[i].penalty])

\* C18: for each of the four exercises analyze_form returns the score 1.0
\* minus the penalties of exactly the rules of the table the frame violates,
\* floored at 0 and never above 1, and one message per violated rule, in
\* rule order.
C18_ScoreFollowsRuleTable ==
    (pc = "unit_done" /\ ret.fn = "analyze_form" /\ exercise_type \in exercise_configs)
        => LET fr == video[1]
               hits == Violated(exercise_type, fr)
               left == 10 - PenaltySum(exercise_type, fr)
           IN  /\ ret.value.score = IF left < 0 THEN 0 ELSE left
               /\ ret.value.score <= 10
               /\ ret.value.feedback = [i \in 1..Len(hits) |-> hits[i].message]

\* Pushups with elbows 50 degrees apart and sagging hips: 1.0 - 0.2 - 0.3.
C18_Witness ==
    /\ pc = "unit_done"
    /\ ret.fn = "analyze_form"
    /\ exercise_type = "pushups"
    /\ video[1].elbow_l = 170
    /\ video[1].elbow_r = 120
    /\ video[1].trunk = 150
    /\ ret.value.score = 5
    /\ ret.value.feedback =
           <<"Keep elbows aligned", "Keep body straight - no sagging hips">>

\* A frame whose score is recorded while a hold is in position.
HoldFrame(fr) == fr.pose /\ InPosition(fr)

\* The scores (tenths, by the rule table) of the frames in position of the
\* hold that started on frame first and lasted to the end of frames.
HoldScores(frames, first) ==
    LET hold == SelectSeq(SubSeq(frames, first, Len(frames)), HoldFrame)
    IN  [i \in 1..Len(hold) |-> 10 - PenaltySum("planks", hold[i])]

C19_CloseStep ==
    (/\ pc = "loop"
     /\ exercise_type = "planks"
     /\ fps = 25
     /\ Len(plank_sessions') = Len(plank_sessions) + 1)
        => LET closed == plank_sessions'[Len(plank_sessions')]
               recent == LastN(HoldScores(video, closed.start_time \div 40), 10)
           IN  closed.form_quality.num * Len(recent)
                  = closed.form_quality.den * SumSeq(recent)

\* C19: the form_quality of a hold session that is closed is the mean of
\* the (at most 10) latest scores of the frames in position during that
\* hold: no score of a frame before the hold opened, nor that of the frame
\* that closes it, enters the mean.
C19_HoldQualityFromHoldFrames == [][C19_CloseStep]_vars

\* The rules the frame violates, none for an exercise without a table.
Triggered(ex, fr) == IF ex \in exercise_configs THEN Violated(ex, fr) ELSE <<>>

C20_EventStep ==
    pc = "loop" =>
        /\ SubSeq(form_feedback', 1, Len(form_feedback)) = form_feedback
        /\ ~ReadsPose => NewEvents = <<>>
        /\ ReadsPose =>
              LET fr == video'[Len(video')]
                  hits == Triggered(exercise_type, fr)
                  score == 10 - SumSeq([i \in 1..Len(hits) |-> hits[i].penalty])
              IN  /\ Len(NewEvents) = Len(hits)
                  /\ \A i \in 1..Len(NewEvents) :
                        /\ NewEvents[i].timestamp = (Len(video') * 1000) \div fps
                        /\ NewEvents[i].message = hits[i].message
                        /\ NewEvents[i].severity =
                               IF score < 7 THEN "warning" ELSE "info"

\* C20: a pose frame that triggers k rules appends exactly k feedback
\* events, one per rule, all with the frame's timestamp and one severity:
\* "warning" when the frame's score is below 0.7, "info" otherwise, also at
\* exactly 0.7; no other step appends an event.
C20_EventsPerTriggeredRule == [][C20_EventStep]_vars

\* A plank frame with a bent back scores exactly 0.7: one "info" event at
\* 40 ms; the next frame, hips too high, scores 0.8: one "info" event at 80.
C20_Witness ==
    /\ pc = "loop"
    /\ exercise_type = "planks"
    /\ Len(video) = 2
    /\ video[1] = BackBent
    /\ form_scores = <<7, 8>>
    /\ form_feedback =
           << [timestamp |-> 40, message |-> "Straighten your back", severity |-> "info"],
              [timestamp |-> 80, message |-> "Lower your hips", severity |-> "info"] >>

\* The quality line that goes with an average score (a fraction of tenths).
QualityLine(avg) ==
    IF avg.num > 8 * avg.den THEN "Excellent form overall!"
    ELSE IF avg.num > 6 * avg.den THEN "Good form with room for improvement"
    ELSE "Focus on form - quality over quantity"

RepLine(r) == [text |-> "Completed repetitions", n |-> Len(r.repetitions)]
HoldLine(r) ==
    [text |-> "Held plank for seconds total", n |-> (r.plank_duration + 50) \div 100]

\* C21 as stated: the overall_feedback of every completed analysis is one
\* quality line chosen by average_form_score (> 0.8, > 0.6, else) plus a
\* rep-count line for a rep exercise or a hold-duration line for planks.
C21_QualityLinePlusSummary ==
    pc = "returned" =>
        /\ Len(result.overall_feedback) = 2
        /\ result.overall_feedback[1].text = QualityLine(result.average_form_score)
        /\ result.overall_feedback[2] =
               IF exercise_type = "planks" THEN HoldLine(result) ELSE RepLine(result)

\* C21 amended: the quality line always; the rep-count line only when at
\* least one repetition was counted, the hold-duration line only when the
\* total hold time is above 0; otherwise the quality line stands alone.
C21_SummaryOnlyWhenNonzero ==
    pc = "returned" =>
        /\ result.overall_feedback[1].text = QualityLine(result.average_form_score)
        /\ result.overall_feedback[1].n = None
        /\ Tail(result.overall_feedback) =
               IF exercise_type # "planks" /\ result.repetitions # <<>>
               THEN <<RepLine(result)>>
               ELSE IF exercise_type = "planks" /\ result.plank_duration > 0
               THEN <<HoldLine(result)>>
               ELSE <<>>

\* A squats run of three standing frames: average 0.9, no repetition, the
\* quality line alone.
C21_Witness ==
    /\ pc = "returned"
    /\ exercise_type = "squats"
    /\ video = <<Standing, Standing, Standing>>
    /\ result.total_reps = 0
    /\ result.overall_feedback = <<[text |-> "Excellent form overall!", n |-> None]>>

\* Twice a primary angle that lies in the band [90, 160].
InBand(p2) == p2 # NaN /\ 2 * 90 <= p2 /\ p2 <= 2 * 160

\* Squats between the thresholds: knees 85 and 170, mean 127.5.
MidSquat == Pose(85, 170, 170, 170, 175, 60, 50)

\* Between the frames of any two consecutive repetitions there is a pose
\* frame with primary angle < 90 (so they are not on consecutive frames).
C24_DownBetweenReps ==
    (exercise_type \in RepExercises /\ fps = 25 /\ pc \in {"loop", "returned", "raised"}) =>
        \A i \in 1..(Len(repetitions) - 1) :
            \E k \in 1..Len(video) :
                /\ repetitions[i].timestamp < 40 * k
                /\ 40 * k < repetitions[i + 1].timestamp
                /\ video[k].pose
                /\ Primary2(exercise_type, video[k]) # NaN
                /\ Primary2(exercise_type, video[k]) < 2 * 90

\* A frame in the band read by a run, with what it does to a set position.
C24_BandStep(unset_too) ==
    (/\ exercise_type \in RepExercises
     /\ ReadsPose
     /\ InBand(Primary2(exercise_type, video'[Len(video')])))
        => /\ repetitions' = repetitions
           /\ (unset_too \/ rep_state # "unset") => rep_state' = rep_state

\* One call of count_repetitions with an angle in the band, 90 and 160 too.
C24_BandCall(unset_too) ==
    (/\ pc = "unit_done"
     /\ ret.fn = "count_repetitions"
     /\ exercise_type \in RepExercises
     /\ InBand(Primary2(exercise_type, video[1])))
        => /\ ~ret.value.new_rep
           /\ (unset_too \/ rep_state # "unset") => ret.value.position = rep_state

C24_BandStepAlways == C24_BandStep(TRUE)
C24_BandStepOnceSet == C24_BandStep(FALSE)

\* C24 as stated: no two repetitions on consecutive pose frames, a pose
\* frame with primary angle < 90 between any two consecutive repetitions,
\* and a frame with primary angle in [90,160] never changes the position
\* and never emits a repetition.
C24_Hysteresis ==
    /\ [](C24_DownBetweenReps /\ C24_BandCall(TRUE))
    /\ [][C24_BandStepAlways]_vars

\* C24 amended: the same, the band leaving the position unchanged once it
\* is UP or DOWN; the first pose frame of a run takes it from UNSET to DOWN
\* when its angle is in the band, without a repetition.
C24_HysteresisOncePositionSet ==
    /\ [](C24_DownBetweenReps /\ C24_BandCall(FALSE))
    /\ [][C24_BandStepOnceSet]_vars

\* Two repetitions with frames in the band on the way up and down.
C24_Witness ==
    /\ exercise_type = "squats"
    /\ video = <<Squatting, Standing, MidSquat, Squatting, MidSquat, Standing>>
    /\ rep_count = 2
    /\ rep_state = "up"

\* Frame k is a pose frame with primary angle below the down-threshold.
BelowDown(k) ==
    /\ video[k].pose
    /\ Primary2(exercise_type, video[k]) # NaN
    /\ Primary2(exercise_type, video[k]) < 2 * 90

\* Frame k is the first pose frame of the run and its primary angle is not
\* above the up-threshold.
FirstPoseNotUp(k) ==
    /\ video[k].pose
    /\ \A j \in 1..(k - 1) : ~video[j].pose
    /\ ~(Primary2(exercise_type, video[k]) # NaN
         /\ Primary2(exercise_type, video[k]) > 2 * 160)

RepRun == exercise_type \in RepExercises /\ fps = 25 /\ pc \in {"loop", "returned", "raised"}

\* C27 as stated: every repetition of a run, the first included, comes
\* after a pose frame of that run whose primary angle was below 90.
C27_RepAfterBelowDown ==
    RepRun =>
        \A i \in DOMAIN repetitions :
            \E k \in 1..Len(video) :
                40 * k < repetitions[i].timestamp /\ BelowDown(k)

\* C27 amended: every repetition comes after a pose frame that put the
\* position DOWN: one with primary angle below 90, or the first pose frame
\* of the run when its angle was not above 160.
C27_RepAfterDownFrame ==
    RepRun =>
        \A i \in DOMAIN repetitions :
            \E k \in 1..Len(video) :
                /\ 40 * k < repetitions[i].timestamp
                /\ BelowDown(k) \/ FirstPoseNotUp(k)

\* A subject who starts at 127.5 degrees and stands up: one repetition,
\* the angle never having been below 90.
C27_Witness ==
    /\ pc = "returned"
    /\ exercise_type = "squats"
    /\ video = <<MidSquat, Standing>>
    /\ result.total_reps = 1
    /\ result.repetitions[1].timestamp = 80

\* The messages of the rule table for the plank frames fs, as a set.
RECURSIVE HoldMessages(_)
HoldMessages(fs) ==
    IF fs = <<>> THEN {}
    ELSE LET hits == Violated("planks", Head(fs))
         IN  {hits[i].message : i \in 1..Len(hits)} \cup HoldMessages(Tail(fs))

C25_CloseStep ==
    (/\ pc = "loop"
     /\ exercise_type = "planks"
     /\ fps = 25
     /\ Len(plank_sessions') = Len(plank_sessions) + 1)
        => LET closed == plank_sessions'[Len(plank_sessions')]
               first == closed.start_time \div 40
               hold == SelectSeq(SubSeq(video, first, Len(video)), HoldFrame)
           IN  closed.feedback = HoldMessages(hold)

\* C25: the feedback of a hold session that is closed is, without
\* duplicates, exactly the messages given on the in-position pose frames of
\* that hold from its opening frame on: none from frames before it opened,
\* from the frame that closes it, or from an earlier hold.
C25_HoldFeedbackFromHoldFrames == [][C25_CloseStep]_vars

\* A hold with hips too high, then a hold without any message.
C25_Witness ==
    /\ exercise_type = "planks"
    /\ video = <<Back175, BackBent, Back165, BackBent>>
    /\ Len(plank_sessions) = 2
    /\ plank_sessions[1].feedback = {"Lower your hips"}
    /\ plank_sessions[2].feedback = {}

\* The sessions are well formed, in time order and apart from each other.
OrderedSessions(sessions) ==
    /\ \A i \in DOMAIN sessions :
          /\ sessions[i].start_time <= sessions[i].end_time
          /\ sessions[i].duration = sessions[i].end_time - sessions[i].start_time
          /\ sessions[i].duration >= 0
    /\ \A i \in 1..(Len(sessions) - 1) :
          sessions[i].end_time < sessions[i + 1].start_time

\* C29: in a plank analysis the one open hold, if any, started after every
\* closed session ended; the sessions are in time order and disjoint, each
\* with start_time <= end_time and duration = end_time - start_time >= 0,
\* and plank_duration is the sum of the sessions' durations.
C29_SessionsOrderedDisjoint ==
    exercise_type = "planks" =>
        /\ OrderedSessions(plank_sessions)
        /\ (pc = "loop" /\ plank_start_time # None /\ plank_sessions # <<>>) =>
               plank_sessions[Len(plank_sessions)].end_time < plank_start_time
        /\ pc = "returned" =>
               /\ OrderedSessions(result.plank_sessions)
               /\ result.plank_duration =
                      SumSeq([i \in 1..Len(result.plank_sessions) |->
                                 result.plank_sessions[i].duration])

\* A hold of one frame closed by a bent back, then a hold opened on the
\* last frame and closed by the end of the video with duration 0.
C29_Witness ==
    /\ pc = "returned"
    /\ exercise_type = "planks"
    /\ video = <<Back165, BackBent, Back175>>
    /\ Len(result.plank_sessions) = 2
    /\ result.plank_sessions[1].end_time = 80
    /\ result.plank_sessions[2].start_time = 120
    /\ result.plank_sessions[2].duration = 0
    /\ result.plank_duration = 40

\* The triple has a vector of length zero from its vertex points[2].
Degenerate == points[1] = points[2] \/ points[3] = points[2]

\* C22: for a degenerate joint triple (a vector from the vertex of length
\* zero) calculate_angle returns exactly 0 degrees, without raising.
C22_DegenerateAngleIsZero ==
    (pc = "unit_done" /\ ret.fn = "calculate_angle" /\ Degenerate) => ret.value = 0

\* The names the claim lists for each exercise.
ListedAngles(ex) ==
    CASE ex = "squats" -> {"left_knee", "right_knee", "left_hip"}
      [] ex = "pushups" -> {"left_elbow", "right_elbow", "body_angle"}
      [] ex = "lunges" -> {"front_knee", "back_knee"}
      [] ex = "planks" -> {"back_angle", "left_elbow"}

\* C23: for each supported exercise the names of the angles that
\* calculate_exercise_angles returns are exactly the angles the exercise's
\* configuration declares (key_angles), which are the names the claim lists.
C23_AnglesAsConfigured ==
    (/\ pc = "unit_done"
     /\ ret.fn = "calculate_exercise_angles"
     /\ exercise_type \in exercise_configs)
        => /\ DOMAIN ret.value = key_angles(exercise_type)
           /\ DOMAIN ret.value = ListedAngles(exercise_type)

\* The messages of the two rules guarded by an angle > 190.
HipsTooHigh == "Lower your hips"
BackArched == "Don't arch your back"

\* What one call returns, for a call of fn that has returned.
Returned(fn) == pc = "unit_done" /\ ret.fn = fn

Done(r) == pc = "route" /\ requests[r].pc = "done"

\* The file the request created is still in the temporary directory.
OwnFileLeft(r) ==
    \E f \in tmpdir : f.inode = r /\ f.path = <<requests[r].second, requests[r].filename>>

\* C26: an upload with a supported extension whose content is larger than
\* MAX_FILE_SIZE is answered with status 413, whether the size is known
\* before or only after the content is read, and the temporary file made
\* for it is gone when the request completes.
C26_TooLargeIs413 ==
    \A r \in DOMAIN requests :
        (Done(r) /\ requests[r].too_large /\ requests[r].filename \in SUPPORTED_FORMATS)
            => (requests[r].status = 413 /\ ~OwnFileLeft(r))

\* C30: every request that reaches the analysis analyzes exactly the bytes
\* it uploaded: its temporary file is neither overwritten nor deleted by
\* another request before its own analysis has finished, also for two
\* uploads with the same filename in the same second.
C30_EachAnalyzesItsOwnUpload ==
    \A r \in DOMAIN requests :
        (Done(r) /\ requests[r].analyzed.called) =>
            (requests[r].analyzed.found /\ requests[r].analyzed.bytes = {r})

====
